---- MODULE Spec2Model ----
(***************************************************************************)
(* IEEE P1906.1 reference code: the molecular-motor / microtubule          *)
(* extension.  The module models                                           *)
(*   - the geometry kernel (cross_product, distance, findNearestTube),     *)
(*   - the tube characteristics setters,                                   *)
(*   - tube generation (genTube / genTubes),                               *)
(*   - segment overlap (getOverlap3D),                                     *)
(*   - the motor (float2Tube, motorWalk, move2Destination, inDestination). *)
(*                                                                         *)
(* Numbers.  The code computes in IEEE doubles.  Coordinates are modelled  *)
(* by integers (nm); a quotient of two doubles is modelled by the exact    *)
(* fraction [n |-> numerator, d |-> denominator], d >= 0, where d = 0      *)
(* stands for the IEEE special values: 0/0 is NaN and x/0 (x > 0) is +inf. *)
(* Points are <<x, y, z>> (gsl_vector of size 3), segments are             *)
(* <<x1, y1, z1, x2, y2, z2>> (gsl_vector of size 6), a tube matrix is a   *)
(* sequence of segments; row i of the C matrix is element i + 1.           *)
(***************************************************************************)
EXTENDS Integers, Sequences, FiniteSets, TLC

(***************************************************************************)
(* Doubles as fractions                                                    *)
(***************************************************************************)
Abs(x) == IF x < 0 THEN -x ELSE x

Rat(x) == [n |-> x, d |-> 1]

GSL_POSINF == [n |-> 1, d |-> 0]

NaN == [n |-> 0, d |-> 0]

gsl_isnan(a) == a.n = 0 /\ a.d = 0

\* a < b on doubles: false as soon as one side is NaN
Less(a, b) == ~gsl_isnan(a) /\ ~gsl_isnan(b) /\ a.n * b.d < b.n * a.d

\* a <= b on doubles: false as soon as one side is NaN
LessEq(a, b) == ~gsl_isnan(a) /\ ~gsl_isnan(b) /\ a.n * b.d <= b.n * a.d

\* a == b on doubles
RatEq(a, b) == ~gsl_isnan(a) /\ ~gsl_isnan(b) /\ a.n * b.d = b.n * a.d

\* lo * lo <= n < hi * hi throughout
RECURSIVE SqrtBetween(_, _, _)
SqrtBetween(n, lo, hi) ==
  IF hi - lo <= 1 THEN lo
  ELSE LET mid == (lo + hi) \div 2
       IN IF mid * mid <= n THEN SqrtBetween(n, mid, hi) ELSE SqrtBetween(n, lo, mid)

\* sqrt on the integer grid (exact on perfect squares, rounded down otherwise)
ISqrt(n) == SqrtBetween(n, 0, IF n < 46340 THEN n + 1 ELSE 46341)

(***************************************************************************)
(* Geometry kernel                                                         *)
(***************************************************************************)
point(x, y, z) == <<x, y, z>>

line(pt1, pt2) == <<pt1[1], pt1[2], pt1[3], pt2[1], pt2[2], pt2[3]>>

\* line(segment, tubeMatrix, mp): row mp of the tube matrix
lineAt(tubeMatrix, mp) == tubeMatrix[mp + 1]

SegStart(segment) == <<segment[1], segment[2], segment[3]>>

SegEnd(segment) == <<segment[4], segment[5], segment[6]>>

gsl_vector_sub(a, b) == <<a[1] - b[1], a[2] - b[2], a[3] - b[3]>>

\* sum of the absolute values of the components
gsl_blas_dasum(v) == Abs(v[1]) + Abs(v[2]) + Abs(v[3])

\* Euclidean norm
gsl_blas_dnrm2(v) == ISqrt(v[1] * v[1] + v[2] * v[2] + v[3] * v[3])

cross_product(u, v) ==
  <<u[2] * v[3] - u[3] * v[2],
    u[3] * v[1] - u[1] * v[3],
    u[1] * v[2] - u[2] * v[1]>>

\* distance(pt, segment_or_point): size 3 is a point, size 6 a segment,
\* anything else prints a message and returns -1
distance(pt, segment_or_point) ==
  IF Len(segment_or_point) = 3
  THEN Rat(gsl_blas_dnrm2(gsl_vector_sub(pt, segment_or_point)))
  ELSE IF Len(segment_or_point) = 6
  THEN LET pt1  == SegStart(segment_or_point)
           pt2  == SegEnd(segment_or_point)
           res1 == gsl_vector_sub(pt, pt1)
           res2 == gsl_vector_sub(pt, pt2)
           res  == cross_product(res1, res2)
       IN  [n |-> gsl_blas_dasum(res), d |-> gsl_blas_dasum(gsl_vector_sub(pt2, pt1))]
  ELSE Rat(-1)

\* the value findNearestTube returns when no segment qualifies
\* (size_t closestSegment = -1, returned as int / compared with ULONG_MAX)
NoSegment == -1

\* one iteration of the scan loop of findNearestTube
NearestStep_NoRadius(pt, tubeMatrix, radius, i, acc) ==
  LET d == distance(pt, lineAt(tubeMatrix, i))
  IN  IF Less(d, acc.shortestDistance)
      THEN [shortestDistance |-> d, closestSegment |-> i]
      ELSE acc

NearestStep_LastTie(pt, tubeMatrix, radius, i, acc) ==
  LET d == distance(pt, lineAt(tubeMatrix, i))
  IN  IF LessEq(d, acc.shortestDistance) /\ LessEq(d, Rat(radius))
      THEN [shortestDistance |-> d, closestSegment |-> i]
      ELSE acc

NearestStep(pt, tubeMatrix, radius, i, acc) ==
  LET d == distance(pt, lineAt(tubeMatrix, i))
  IN  IF Less(d, acc.shortestDistance) /\ LessEq(d, Rat(radius))
      THEN [shortestDistance |-> d, closestSegment |-> i]
      ELSE acc

RECURSIVE NearestScan(_, _, _, _, _)
NearestScan(pt, tubeMatrix, radius, i, acc) ==
  IF i < Len(tubeMatrix)
  THEN NearestScan(pt, tubeMatrix, radius, i + 1,
                   NearestStep(pt, tubeMatrix, radius, i, acc))
  ELSE acc

findNearestTube(pt, tubeMatrix, radius) ==
  NearestScan(pt, tubeMatrix, radius, 0,
              [shortestDistance |-> GSL_POSINF, closestSegment |-> NoSegment]).closestSegment

(***************************************************************************)
(* State                                                                   *)
(***************************************************************************)
VARIABLES
  tubeMatrix,   \* the network: sequence of segments, row i is tubeMatrix[i + 1]
  nq,           \* last findNearestTube call: arguments and returned index
  dq,           \* last distance call: arguments and returned value
  ts,           \* tubeCharacteristcs_t: the properties of the network
  setCalled,    \* the setters called on ts so far
  r,            \* gsl_rng of the field: the generator's state
  gen,          \* genTubes: position in its loop, segMatrix, entropy total
  hq,           \* last sEntropy call: the angle list and the outcome
  ov,           \* getOverlap3D: probe segment, loop index, pts, tubeSegments
  current_location,    \* the motor's position
  destination_volume,  \* lower-left and upper-right corner of the destination
  pts,          \* the position history handed to move2Destination
  time,         \* t.time, in milliseconds
  mr,           \* gsl_rng of the motor: the generator's state
  m2d,          \* move2Destination: its arguments, loops, position in the loop
  f2d,          \* float2Destination: its argument, pos_history, position in the loop
  drv,          \* the driver: the call it makes next, its destination box
  wq,           \* last motorWalk call: arguments, rows read, points, time added
  vf,           \* the vector field: tubes2VectorField and findClosestPoint calls
  ao            \* getAllOverlaps3D: probe index, rows of pts written, total

nearestVars == <<nq>>

distVars == <<dq>>

charsVars == <<ts, setCalled>>

genVars == <<r, gen, hq>>

overlapVars == <<ov>>

motorVars == <<current_location, destination_volume, pts, time, mr, m2d, f2d, drv>>

callVars == <<wq, vf, ao>>

vars ==
  <<tubeMatrix, nq, dq, ts, setCalled, r, gen, hq, ov,
    current_location, destination_volume, pts, time, mr, m2d, f2d, drv,
    wq, vf, ao>>

NotCalled == [called |-> FALSE]

\* the characteristics the constructor sets: volume 25, length 100, angles 30
\* and 10, density 10, persistence length 50, 10 segments per tube
DefaultChars ==
  [volume |-> 25, mean_tube_length |-> 100, mean_intra_tube_angle |-> 30,
   mean_inter_tube_angle |-> 10, mean_tube_density |-> 10,
   segLength |-> [n |-> 100, d |-> 5], numSegments |-> 250,
   persistenceLength |-> 50, segPerTube |-> 10, numTubes |-> 25, se |-> 0]

AllSetters ==
  {"setTubeVolume", "setTubeLength", "setTubeIntraAngle", "setTubeInterAngle",
   "setTubeDensity", "setTubePersistenceLength", "setTubeSegments"}

CharsIdle ==
  /\ ts = DefaultChars
  /\ setCalled = AllSetters

GenIdle ==
  /\ r = 0
  /\ gen = [pc |-> "idle"]
  /\ hq = NotCalled

OverlapIdle == ov = [pc |-> "idle"]

CallsIdle ==
  /\ wq = NotCalled
  /\ vf = [pc |-> "idle"]
  /\ ao = [pc |-> "idle"]

\* the motor as constructed: empty history, time reset by initTime
MotorIdle ==
  /\ current_location = <<0, 0, 0>>
  /\ destination_volume = <<0, 0, 0, 0, 0, 0>>
  /\ pts = <<>>
  /\ time = 0
  /\ mr = 0
  /\ m2d = [pc |-> "idle"]
  /\ f2d = [pc |-> "idle"]
  /\ drv = [pc |-> "idle"]

(***************************************************************************)
(* Inputs                                                                  *)
(***************************************************************************)
\* longest network drawn for a findNearestTube call
MaxSegs == 3

\* segments the networks handed to findNearestTube are built from: the x axis,
\* two parallels 20 nm either side of it, the y axis, a zero-length segment
SegmentPool ==
  { <<0, 0, 0, 10, 0, 0>>,
    <<0, 20, 0, 10, 20, 0>>,
    <<0, -20, 0, 10, -20, 0>>,
    <<0, 0, 0, 0, 10, 0>>,
    <<5, 5, 5, 5, 5, 5>> }

RECURSIVE SeqsUpTo(_, _)
SeqsUpTo(S, n) ==
  IF n = 0 THEN {<<>>}
  ELSE LET shorter == SeqsUpTo(S, n - 1)
       IN  shorter \cup {Append(q, x) : q \in {p \in shorter : Len(p) = n - 1}, x \in S}

Networks == SeqsUpTo(SegmentPool, MaxSegs)

QueryPoints ==
  { <<0, 0, 0>>, <<3, 5, 0>>, <<0, 10, 0>>, <<0, 15, 0>>, <<7, 0, 16>>, <<5, 5, 5>> }

\* the tube radius every caller passes, and two more to move the boundary
Radii == {0, 15, 20}

(***************************************************************************)
(* findNearestTube against a drawn network                                 *)
(***************************************************************************)
InitNearest ==
  /\ tubeMatrix \in Networks
  /\ nq = NotCalled
  /\ dq = NotCalled
  /\ CharsIdle
  /\ GenIdle
  /\ OverlapIdle
  /\ MotorIdle
  /\ CallsIdle

FindNearestTubeCall ==
  /\ \E pt \in QueryPoints, radius \in Radii :
       nq' = [called |-> TRUE, pt |-> pt, radius |-> radius,
              result |-> findNearestTube(pt, tubeMatrix, radius)]
  /\ UNCHANGED <<tubeMatrix, dq, charsVars, genVars, overlapVars, callVars, motorVars>>

NextNearest == FindNearestTubeCall

SpecNearest == InitNearest /\ [][NextNearest]_vars

\* segment rows of the network within radius of the query point
InRadius(pt, network, radius) ==
  {i \in 0 .. Len(network) - 1 : LessEq(distance(pt, lineAt(network, i)), Rat(radius))}

\* C4: findNearestTube returns the 'none' sentinel if and only if no segment
\* of the network has distance <= radius from the query point.
C4_SentinelIffNoneInRadius ==
  nq.called =>
    (nq.result = NoSegment <=> InRadius(nq.pt, tubeMatrix, nq.radius) = {})

\* radius 15 and a non-empty network whose nearest segment is 20 away
C4_Witness ==
  /\ nq.called
  /\ nq.radius = 15
  /\ nq.pt = <<0, 0, 0>>
  /\ tubeMatrix = << <<0, 20, 0, 10, 20, 0>>, <<0, -20, 0, 10, -20, 0>> >>
  /\ RatEq(distance(nq.pt, lineAt(tubeMatrix, 0)), Rat(20))
  /\ nq.result = NoSegment

\* C5: when a segment is within radius the returned index has the least
\* distance among the in-radius segments, and among equally near segments it
\* is the lowest index.
C5_NearestLowestIndex ==
  (nq.called /\ InRadius(nq.pt, tubeMatrix, nq.radius) # {}) =>
    /\ nq.result \in InRadius(nq.pt, tubeMatrix, nq.radius)
    /\ \A j \in InRadius(nq.pt, tubeMatrix, nq.radius) :
         LET dr == distance(nq.pt, lineAt(tubeMatrix, nq.result))
             dj == distance(nq.pt, lineAt(tubeMatrix, j))
         IN  /\ LessEq(dr, dj)
             /\ RatEq(dr, dj) => nq.result <= j

\* two segments tie at 10 nm, a farther one comes first, and the
\* first of the tied pair is returned
C5_Witness ==
  /\ nq.called
  /\ nq.radius = 20
  /\ nq.pt = <<0, 10, 0>>
  /\ tubeMatrix = << <<0, -20, 0, 10, -20, 0>>, <<0, 0, 0, 10, 0, 0>>, <<0, 20, 0, 10, 20, 0>> >>
  /\ nq.result = 1

(***************************************************************************)
(* distance(point, segment)                                                *)
(***************************************************************************)
\* number of direction steps in the longest segment drawn for a distance call
MaxSteps == 3

SegStarts == { <<0, 0, 0>>, <<-1, -1, -1>>, <<2, 0, 1>> }

Directions == { <<1, 1, 1>>, <<1, 0, 0>>, <<0, -2, 1>>, <<-1, 2, 0>> }

Offsets == { <<0, 0, 0>>, <<0, 1, 1>>, <<1, 0, 0>>, <<0, 0, -2>> }

Scale(k, v) == <<k * v[1], k * v[2], k * v[3]>>

gsl_vector_add(a, b) == <<a[1] + b[1], a[2] + b[2], a[3] + b[3]>>

InitDistance ==
  /\ tubeMatrix = <<>>
  /\ nq = NotCalled
  /\ dq = NotCalled
  /\ CharsIdle
  /\ GenIdle
  /\ OverlapIdle
  /\ MotorIdle
  /\ CallsIdle

\* distance from start + (k/n)(end - start) + off to the segment start-end,
\* where end = start + n * dir; off = 0 puts the point on the segment, and
\* n = 0 makes the segment a single point
DistanceCall ==
  /\ \E start \in SegStarts, dir \in Directions, n \in 0 .. MaxSteps, off \in Offsets :
       \E k \in 0 .. n :
         LET segment == line(start, gsl_vector_add(start, Scale(n, dir)))
             pt      == gsl_vector_add(gsl_vector_add(start, Scale(k, dir)), off)
         IN  dq' = [called |-> TRUE, pt |-> pt, segment |-> segment,
                    onSegment |-> (off = <<0, 0, 0>>), k |-> k, n |-> n,
                    result |-> distance(pt, segment)]
  /\ UNCHANGED <<tubeMatrix, nq, charsVars, genVars, overlapVars, callVars, motorVars>>

\* operands of other shapes: points, and vectors that are neither a point
\* nor a segment
Operands ==
  { <<0, 0, 0>>, <<3, 4, 0>>, <<>>, <<7>>, <<1, 2>>, <<1, 2, 3, 4>>,
    <<0, 0, 0, 1, 0>>, <<0, 0, 0, 1, 0, 0, 5>> }

\* distance from a point to an operand of any size
DistanceOperandCall ==
  /\ \E pt \in Offsets, operand \in Operands :
       dq' = [called |-> TRUE, pt |-> pt, segment |-> operand,
              onSegment |-> FALSE, k |-> 0, n |-> 0,
              result |-> distance(pt, operand)]
  /\ UNCHANGED <<tubeMatrix, nq, charsVars, genVars, overlapVars, callVars, motorVars>>

NextDistance ==
  \/ DistanceCall
  \/ DistanceOperandCall

SpecDistance == InitDistance /\ [][NextDistance]_vars

\* C10: distance(P, S) is 0 for every point P = start + t (end - start),
\* t in [0, 1], of every segment S, (0,0,0) against (-1,-1,-1)-(2,2,2) included.
C10_OnSegmentIsZero ==
  (dq.called /\ dq.onSegment) => RatEq(dq.result, Rat(0))

NonDegenerate(segment) == Len(segment) = 6 /\ SegStart(segment) # SegEnd(segment)

SquaredNorm(v) == v[1] * v[1] + v[2] * v[2] + v[3] * v[3]

\* C11: for every point and every non-degenerate segment, distance is the
\* Euclidean distance to the line through the segment: its square is
\* |(pt - p1) x (pt - p2)|^2 / |p2 - p1|^2 with Euclidean magnitudes
\* ((0,1,1) against (0,0,0)-(1,0,0) gives sqrt(2), whose square is 2).
C11_DistanceIsEuclidean ==
  (dq.called /\ NonDegenerate(dq.segment)) =>
    LET pt1 == SegStart(dq.segment)
        pt2 == SegEnd(dq.segment)
        res == cross_product(gsl_vector_sub(dq.pt, pt1), gsl_vector_sub(dq.pt, pt2))
    IN  /\ dq.result.d > 0
        /\ dq.result.n * dq.result.n * SquaredNorm(gsl_vector_sub(pt2, pt1))
             = SquaredNorm(res) * dq.result.d * dq.result.d

\* C17: distance called with an operand of size neither 3 nor 6 yields an
\* outcome no caller can take for a distance: it never passes a caller's
\* 'distance <= radius' test.
C17_WrongSizeNeverInRadius ==
  (dq.called /\ Len(dq.segment) \notin {3, 6}) =>
    \A radius \in Radii : ~LessEq(dq.result, Rat(radius))

(***************************************************************************)
(* tubeCharacteristcs_t and its setters                                    *)
(***************************************************************************)
Volumes == {25, 50}

Densities == {10, 4}

SegsPerTube == {10, 3}

\* what an unset size_t or double field of the struct may hold
Garbage == {0, 7}

\* the struct is a local that the constructor declares without initialising:
\* every field the setters compute from starts with an indeterminate value
InitChars ==
  /\ tubeMatrix = <<>>
  /\ nq = NotCalled
  /\ dq = NotCalled
  /\ setCalled = {}
  /\ GenIdle
  /\ OverlapIdle
  /\ MotorIdle
  /\ CallsIdle
  /\ \E v \in Garbage, d \in Garbage, ns \in Garbage, nt \in Garbage, spt \in Garbage :
       ts = [volume |-> v, mean_tube_length |-> 0, mean_intra_tube_angle |-> 0,
             mean_inter_tube_angle |-> 0, mean_tube_density |-> d,
             segLength |-> Rat(0), numSegments |-> ns,
             persistenceLength |-> 0, segPerTube |-> spt, numTubes |-> nt, se |-> 0]

setTubeVolume(volume) ==
  /\ ts' = [ts EXCEPT !.volume = volume]
  /\ setCalled' = setCalled \cup {"setTubeVolume"}
  /\ UNCHANGED <<tubeMatrix, nq, dq, genVars, overlapVars, callVars, motorVars>>

setTubeLength(mean_tube_length) ==
  /\ ts' = [ts EXCEPT !.mean_tube_length = mean_tube_length,
                      !.segLength = [n |-> mean_tube_length, d |-> 5]]
  /\ setCalled' = setCalled \cup {"setTubeLength"}
  /\ UNCHANGED <<tubeMatrix, nq, dq, genVars, overlapVars, callVars, motorVars>>

setTubeIntraAngle(mean_intra_tube_angle) ==
  /\ ts' = [ts EXCEPT !.mean_intra_tube_angle = mean_intra_tube_angle]
  /\ setCalled' = setCalled \cup {"setTubeIntraAngle"}
  /\ UNCHANGED <<tubeMatrix, nq, dq, genVars, overlapVars, callVars, motorVars>>

setTubeInterAngle(mean_inter_tube_angle) ==
  /\ ts' = [ts EXCEPT !.mean_inter_tube_angle = mean_inter_tube_angle]
  /\ setCalled' = setCalled \cup {"setTubeInterAngle"}
  /\ UNCHANGED <<tubeMatrix, nq, dq, genVars, overlapVars, callVars, motorVars>>

setTubeDensity(mean_tube_density) ==
  /\ ts' = [ts EXCEPT !.mean_tube_density = mean_tube_density,
                      !.numSegments = mean_tube_density * ts.volume]
  /\ setCalled' = setCalled \cup {"setTubeDensity"}
  /\ UNCHANGED <<tubeMatrix, nq, dq, genVars, overlapVars, callVars, motorVars>>

setTubePersistenceLength(persistenceLength) ==
  /\ ts' = [ts EXCEPT !.persistenceLength = persistenceLength]
  /\ setCalled' = setCalled \cup {"setTubePersistenceLength"}
  /\ UNCHANGED <<tubeMatrix, nq, dq, genVars, overlapVars, callVars, motorVars>>

\* segPerTube > 0: the quotient of two size_t traps on a zero divisor
setTubeSegments(segPerTube) ==
  /\ segPerTube > 0
  /\ ts' = [ts EXCEPT !.segPerTube = segPerTube,
                      !.numTubes = ts.numSegments \div segPerTube]
  /\ setCalled' = setCalled \cup {"setTubeSegments"}
  /\ UNCHANGED <<tubeMatrix, nq, dq, genVars, overlapVars, callVars, motorVars>>

NextChars ==
  \/ \E volume \in Volumes : setTubeVolume(volume)
  \/ setTubeLength(100)
  \/ setTubeIntraAngle(30)
  \/ setTubeInterAngle(10)
  \/ \E density \in Densities : setTubeDensity(density)
  \/ setTubePersistenceLength(50)
  \/ \E segPerTube \in SegsPerTube : setTubeSegments(segPerTube)

SpecChars == InitChars /\ [][NextChars]_vars

\* C7: once every setter has been called at least once, in any order and any
\* number of times, numSegments = density * volume and
\* numTubes = floor(numSegments / segPerTube).
C7_DerivedFieldsCurrent ==
  setCalled = AllSetters =>
    /\ ts.numSegments = ts.mean_tube_density * ts.volume
    /\ ts.numTubes = ts.numSegments \div ts.segPerTube

(***************************************************************************)
(* genTube and genTubes                                                    *)
(*                                                                         *)
(* The generator is a deterministic sequence of states; a Gaussian draw is *)
(* read off the state reached.  Angles are counted in quarter turns, so    *)
(* that their sines and cosines are exact.                                 *)
(***************************************************************************)
RngModulus == 64

Seeds == 0 .. RngModulus - 1

gsl_rng_get(s) == (5 * s + 3) % RngModulus

RECURSIVE Advance(_, _)
Advance(s, k) == IF k = 0 THEN s ELSE Advance(gsl_rng_get(s), k - 1)

gsl_ran_gaussian(s) == <<-2, -1, -1, 0, 0, 1, 1, 2>>[((s \div 8) % 8) + 1]

Sin(q) == <<0, 1, 0, -1>>[(q % 4) + 1]

Cos(q) == <<1, 0, -1, 0>>[(q % 4) + 1]

\* 1000 * ln(n), n = 1 .. 8
gsl_sf_log(n) == <<0, 693, 1099, 1386, 1609, 1792, 1946, 2079>>[n]

SeqMin(q) == CHOOSE x \in {q[i] : i \in DOMAIN q} : \A i \in DOMAIN q : x <= q[i]

SeqMax(q) == CHOOSE x \in {q[i] : i \in DOMAIN q} : \A i \in DOMAIN q : x >= q[i]

NumBins == 100

\* gsl_histogram_increment: the bin of x in NumBins uniform bins over
\* [minAngle, maxAngle); a sample at or above the upper end is not counted
Counted(segAngle) == {i \in DOMAIN segAngle : segAngle[i] < SeqMax(segAngle)}

BinOf(segAngle, x) ==
  ((x - SeqMin(segAngle)) * NumBins) \div (SeqMax(segAngle) - SeqMin(segAngle))

gsl_histogram_get(segAngle, b) ==
  Cardinality({i \in Counted(segAngle) : BinOf(segAngle, segAngle[i]) = b})

gsl_histogram_sum(segAngle) == Cardinality(Counted(segAngle))

RECURSIVE EntropySum(_, _)
EntropySum(segAngle, bins) ==
  IF bins = {} THEN 0
  ELSE LET b == CHOOSE x \in bins : TRUE
           c == gsl_histogram_get(segAngle, b)
           sum == gsl_histogram_sum(segAngle)
       IN (c * (gsl_sf_log(sum) - gsl_sf_log(c))) \div sum
          + EntropySum(segAngle, bins \ {b})

\* gsl_histogram_set_ranges_uniform reports an error unless min < max
RangeError(segAngle) == SeqMin(segAngle) >= SeqMax(segAngle)

\* H = - sum p ln p over the bins with p > 0, in thousandths
sEntropy(segAngle) ==
  EntropySum(segAngle, {BinOf(segAngle, segAngle[i]) : i \in Counted(segAngle)})

\* one angle per row of segAngle, each a Gaussian draw
genPersistenceLength(s, size1) ==
  [i \in 1 .. size1 |-> gsl_ran_gaussian(Advance(s, i))]

SegmentStart_PrevStart(segMatrix, i, startPt) ==
  IF i = 0 THEN startPt ELSE SegStart(lineAt(segMatrix, i - 1))

\* segment 0 starts at startPt, segment i at the end of segment i - 1
SegmentStart(segMatrix, i, startPt) ==
  IF i = 0 THEN startPt ELSE SegEnd(lineAt(segMatrix, i - 1))

SegmentEnd(chars, theta, psi, start) ==
  LET x == (chars.segLength.n * Sin(theta) * Cos(psi)) \div chars.segLength.d
      y == (chars.segLength.n * Sin(theta) * Sin(psi)) \div chars.segLength.d
      z == (chars.segLength.n * Cos(theta)) \div chars.segLength.d
  IN <<x + start[1], y + start[2], z + start[3]>>

RECURSIVE TubeLoop(_, _, _, _, _, _)
TubeLoop(chars, segAngleTheta, segAnglePsi, startPt, segMatrix, i) ==
  IF i < chars.segPerTube
  THEN LET start == SegmentStart(segMatrix, i, startPt)
           end == SegmentEnd(chars, segAngleTheta[i + 1], segAnglePsi[i + 1], start)
       IN TubeLoop(chars, segAngleTheta, segAnglePsi, startPt,
                   Append(segMatrix, line(start, end)), i + 1)
  ELSE segMatrix

\* the tube, its entropy and the generator's state after the 2 * numSegments
\* draws; error when an angle list has min = max
genTube(chars, s, startPt) ==
  LET segAngleTheta == genPersistenceLength(s, chars.numSegments)
      segAnglePsi == genPersistenceLength(Advance(s, chars.numSegments), chars.numSegments)
  IN IF RangeError(segAngleTheta) \/ RangeError(segAnglePsi)
     THEN [error |-> TRUE]
     ELSE [error |-> FALSE,
           segMatrix |-> TubeLoop(chars, segAngleTheta, segAnglePsi, startPt, <<>>, 0),
           se |-> sEntropy(segAngleTheta) + sEntropy(segAnglePsi),
           segAngleTheta |-> segAngleTheta,
           segAnglePsi |-> segAnglePsi,
           draws |-> Len(segAngleTheta) + Len(segAnglePsi),
           r |-> Advance(s, 2 * chars.numSegments)]

\* the characteristics after the seven setters in the constructor's order
NetworkChars(volume, length, intra, inter, density, persistence, segPerTube) ==
  [volume |-> volume, mean_tube_length |-> length, mean_intra_tube_angle |-> intra,
   mean_inter_tube_angle |-> inter, mean_tube_density |-> density,
   segLength |-> [n |-> length, d |-> 5], numSegments |-> density * volume,
   persistenceLength |-> persistence, segPerTube |-> segPerTube,
   numTubes |-> (density * volume) \div segPerTube, se |-> 0]

GenVolumes == {1, 2}

GenDensities == {2, 3}

GenSegsPerTube == {1, 2, 3}

\* the order in which the build evaluates the three draws of a start point
ArgOrders == {"ltr", "rtl"}

\* a freshly allocated matrix holds whatever the memory held
Unset == <<7, 7, 7, 7, 7, 7>>

InitGen ==
  /\ nq = NotCalled
  /\ dq = NotCalled
  /\ setCalled = AllSetters
  /\ OverlapIdle
  /\ MotorIdle
  /\ CallsIdle
  /\ \E volume \in GenVolumes, density \in GenDensities, segPerTube \in GenSegsPerTube :
       ts = NetworkChars(volume, 100, 30, 10, density, 50, segPerTube)
  /\ r \in Seeds
  /\ hq = NotCalled
  /\ tubeMatrix = [row \in 1 .. ts.numTubes * ts.segPerTube |-> Unset]
  /\ \E order \in ArgOrders :
       gen = [pc |-> "loop", i |-> 0, order |-> order,
              segMatrix |-> [row \in 1 .. ts.segPerTube |-> Unset],
              segAngleTheta |-> <<>>, segAnglePsi |-> <<>>, draws |-> 0,
              total_structural_entropy |-> 0]

\* one pass of the loop over the tubes: draw the start point, generate the
\* tube, add its entropy, copy its rows into tubeMatrix
GenTubesIteration ==
  /\ gen.pc = "loop"
  /\ gen.i < ts.numTubes
  /\ LET g1 == gsl_ran_gaussian(Advance(r, 1))
         g2 == gsl_ran_gaussian(Advance(r, 2))
         g3 == gsl_ran_gaussian(Advance(r, 3))
         startPt == IF gen.order = "ltr" THEN point(g1, g2, g3) ELSE point(g3, g2, g1)
         tube == genTube(ts, Advance(r, 3), startPt)
     IN IF tube.error
        THEN /\ gen' = [gen EXCEPT !.pc = "aborted"]
             /\ r' = Advance(r, 3 + ts.numSegments)
             /\ UNCHANGED <<ts, tubeMatrix>>
        ELSE /\ r' = tube.r
             /\ ts' = [ts EXCEPT !.se = tube.se]
             /\ gen' = [gen EXCEPT !.i = gen.i + 1,
                                   !.segMatrix = tube.segMatrix,
                                   !.segAngleTheta = tube.segAngleTheta,
                                   !.segAnglePsi = tube.segAnglePsi,
                                   !.draws = tube.draws,
                                   !.total_structural_entropy = @ + tube.se]
             /\ tubeMatrix' =
                  [row \in DOMAIN tubeMatrix |->
                     IF (row - 1) \div ts.segPerTube = gen.i
                     THEN tube.segMatrix[((row - 1) % ts.segPerTube) + 1]
                     ELSE tubeMatrix[row]]
  /\ UNCHANGED <<nq, dq, hq, setCalled, overlapVars, callVars, motorVars>>

GenTubesReturn ==
  /\ gen.pc = "loop"
  /\ gen.i >= ts.numTubes
  /\ ts' = [ts EXCEPT !.se = gen.total_structural_entropy]
  /\ gen' = [gen EXCEPT !.pc = "done"]
  /\ UNCHANGED <<tubeMatrix, nq, dq, hq, setCalled, r, overlapVars, callVars, motorVars>>

NextGen ==
  \/ GenTubesIteration
  \/ GenTubesReturn

SpecGen == InitGen /\ [][NextGen]_vars

Chained(rows) ==
  \A i \in 1 .. Len(rows) - 1 : SegStart(rows[i + 1]) = SegEnd(rows[i])

TubeRows(network, tube, segPerTube) ==
  [j \in 1 .. segPerTube |-> network[tube * segPerTube + j]]

\* C8: in every generated tube the start of segment i+1 is the end of segment
\* i, for i in [0, segPerTube-2], and the rows tube*segPerTube ..
\* tube*segPerTube+segPerTube-1 of the network hold that tube unchanged, so
\* the chain holds there too.
C8_ChainPreserved ==
  (gen.pc \in {"loop", "done", "aborted"} /\ gen.i > 0) =>
    /\ Chained(gen.segMatrix)
    /\ TubeRows(tubeMatrix, gen.i - 1, ts.segPerTube) = gen.segMatrix
    /\ \A tube \in 0 .. gen.i - 1 : Chained(TubeRows(tubeMatrix, tube, ts.segPerTube))

C8_Witness ==
  /\ gen.pc = "done"
  /\ gen.i = 2
  /\ ts.segPerTube = 3
  /\ \A row \in DOMAIN tubeMatrix : SegStart(tubeMatrix[row]) # SegEnd(tubeMatrix[row])
  /\ SegStart(tubeMatrix[5]) = SegEnd(tubeMatrix[4])
  /\ SegStart(tubeMatrix[4]) # SegEnd(tubeMatrix[3])

\* C23: genTube draws two angles per segment of the tube and no more, and
\* the tube's entropy is that of exactly these segPerTube theta samples and
\* segPerTube psi samples.
C23_EntropyOfTheTubesAngles ==
  (gen.pc \in {"loop", "done"} /\ gen.i > 0) =>
    /\ Len(gen.segAngleTheta) = ts.segPerTube
    /\ Len(gen.segAnglePsi) = ts.segPerTube
    /\ gen.draws = 2 * ts.segPerTube

(***************************************************************************)
(* sEntropy on a drawn list of angles                                      *)
(***************************************************************************)
\* longest angle list drawn for an sEntropy call
MaxSamples == 4

\* the values a Gaussian draw takes
Angles == {-2, -1, 0, 1, 2}

AngleLists == SeqsUpTo(Angles, MaxSamples) \ {<<>>}

\* the caller has filled the angle list
InitEntropy ==
  /\ tubeMatrix = <<>>
  /\ nq = NotCalled
  /\ dq = NotCalled
  /\ CharsIdle
  /\ r = 0
  /\ gen = [pc |-> "idle"]
  /\ \E segAngle \in AngleLists : hq = [called |-> FALSE, segAngle |-> segAngle]
  /\ OverlapIdle
  /\ MotorIdle
  /\ CallsIdle

\* a call of sEntropy: the GSL error handler ends the program when the
\* histogram's range is empty, otherwise H is returned
SEntropyCall ==
  /\ ~hq.called
  /\ hq' = IF RangeError(hq.segAngle)
           THEN [called |-> TRUE, segAngle |-> hq.segAngle, outcome |-> "abort"]
           ELSE [called |-> TRUE, segAngle |-> hq.segAngle, outcome |-> "returned",
                 sum |-> gsl_histogram_sum(hq.segAngle),
                 H |-> sEntropy(hq.segAngle)]
  /\ UNCHANGED <<tubeMatrix, nq, dq, charsVars, r, gen, overlapVars, callVars, motorVars>>

NextEntropy == SEntropyCall

SpecEntropy == InitEntropy /\ [][NextEntropy]_vars

\* C13: for every non-empty list of angle samples sEntropy returns a value
\* H, and H >= 0.
C13_EntropyNonNegative ==
  hq.called => (hq.outcome = "returned" /\ hq.H >= 0)

\* whenever sEntropy does return, the value is not negative
EntropyNonNegativeWhenReturned ==
  (hq.called /\ hq.outcome = "returned") => hq.H >= 0

\* C14: on a list whose samples all have the same value (minimum equal to
\* maximum) sEntropy returns 0.
C14_ConstantListIsZero ==
  (hq.called /\ SeqMin(hq.segAngle) = SeqMax(hq.segAngle)) =>
    (hq.outcome = "returned" /\ hq.H = 0)

\* C30: every sample is counted in one of the bins, the samples equal to
\* the minimum and to the maximum included: the histogram total is the
\* number of samples.
C30_EverySampleCounted ==
  (hq.called /\ hq.outcome = "returned") => hq.sum = Len(hq.segAngle)

(***************************************************************************)
(* getOverlap3D                                                            *)
(***************************************************************************)
RatAdd(a, b) == [n |-> a.n * b.d + b.n * a.d, d |-> a.d * b.d]

RatMul(a, b) == [n |-> a.n * b.n, d |-> a.d * b.d]

Dot(u, v) == u[1] * v[1] + u[2] * v[2] + u[3] * v[3]

min(a, b) == IF a < b THEN a ELSE b

max(a, b) == IF a > b THEN a ELSE b

\* what a rank-deficient system may return beside the minimum-norm solution:
\* a singular value that rounds to a tiny nonzero number moves the solution
\* far along the null direction
NullShifts == {0, -1000, 1000}

\* gsl_linalg_SV_decomp and gsl_linalg_SV_solve on the 3 x 2 system
\* [u v] x = w: the least-squares solution, as the set of pairs <<t, s>> the
\* solver may return
SV_solve(u, v, w) ==
  LET uu == Dot(u, u)
      vv == Dot(v, v)
      uv == Dot(u, v)
      uw == Dot(u, w)
      vw == Dot(v, w)
      det == uu * vv - uv * uv
  IN IF det # 0
     THEN { << [n |-> vv * uw - uv * vw, d |-> det],
               [n |-> uu * vw - uv * uw, d |-> det] >> }
     ELSE IF uu + vv = 0
     THEN { <<Rat(0), Rat(0)>>, <<NaN, NaN>> }
     ELSE { << [n |-> uw + k * v[j] * (uu + vv), d |-> uu + vv],
               [n |-> vw - k * u[j] * (uu + vv), d |-> uu + vv] >> :
              k \in NullShifts, j \in 1 .. 3 }
          \cup { <<NaN, NaN>> }

OverlapPoint_Unscaled(segment, t) ==
  [k \in 1 .. 3 |-> RatAdd(Rat(segment[k]), t)]

\* pt = A + x(0) * (B - A)
OverlapPoint(segment, t) ==
  [k \in 1 .. 3 |-> RatAdd(Rat(segment[k]), RatMul(t, Rat(segment[k + 3] - segment[k])))]

\* min(p, q) <= pt <= max(p, q) on the three axes
InBox_LowerOnly(pt, segment) ==
  \A k \in 1 .. 3 : LessEq(Rat(min(segment[k], segment[k + 3])), pt[k])

InBox(pt, segment) ==
  \A k \in 1 .. 3 :
    /\ LessEq(Rat(min(segment[k], segment[k + 3])), pt[k])
    /\ LessEq(pt[k], Rat(max(segment[k], segment[k + 3])))

OverlapPool ==
  { <<0, 0, 0, 5, 5, 0>>, <<5, 0, 0, 0, 5, 0>>, <<10, 0, 0, 6, 4, 0>>,
    <<0, 0, 1, 5, 5, 1>>, <<0, 5, -1, 5, 0, 4>> }

InitOverlap ==
  /\ tubeMatrix \in SeqsUpTo(OverlapPool, MaxSegs)
  /\ nq = NotCalled
  /\ dq = NotCalled
  /\ CharsIdle
  /\ GenIdle
  /\ MotorIdle
  /\ CallsIdle
  /\ \E segment \in OverlapPool :
       ov = [pc |-> "loop", segment |-> segment, i |-> 0, pts |-> <<>>,
             tubeSegments |-> <<>>, numPts |-> 0, x |-> <<Rat(0), Rat(0)>>,
             xs |-> <<>>]

\* a scan that ends at the first candidate without a solution
GetOverlap3DIteration_StopsAtNaN ==
  /\ ov.pc = "loop"
  /\ ov.i < Len(tubeMatrix)
  /\ LET A == SegStart(ov.segment)
         B == SegEnd(ov.segment)
         C == SegStart(lineAt(tubeMatrix, ov.i))
         D == SegEnd(lineAt(tubeMatrix, ov.i))
     IN \E x \in SV_solve(gsl_vector_sub(B, A), gsl_vector_sub(C, D), gsl_vector_sub(C, A)) :
          LET pt == OverlapPoint(ov.segment, x[1])
          IN IF /\ ~gsl_isnan(x[1])
                /\ ~gsl_isnan(x[2])
                /\ InBox(pt, ov.segment)
                /\ InBox(pt, lineAt(tubeMatrix, ov.i))
             THEN ov' = [ov EXCEPT !.pts = Append(@, pt),
                                   !.tubeSegments = Append(@, ov.i),
                                   !.numPts = @ + 1,
                                   !.i = @ + 1,
                                   !.x = x,
                                   !.xs = Append(@, x)]
             ELSE IF gsl_isnan(x[1]) \/ gsl_isnan(x[2])
             THEN ov' = [ov EXCEPT !.i = Len(tubeMatrix), !.x = x, !.xs = Append(@, x)]
             ELSE ov' = [ov EXCEPT !.i = @ + 1, !.x = x, !.xs = Append(@, x)]
  /\ UNCHANGED <<tubeMatrix, nq, dq, charsVars, genVars, callVars, motorVars>>

\* one pass of the loop over the rows of tubeMatrix
GetOverlap3DIteration ==
  /\ ov.pc = "loop"
  /\ ov.i < Len(tubeMatrix)
  /\ LET A == SegStart(ov.segment)
         B == SegEnd(ov.segment)
         C == SegStart(lineAt(tubeMatrix, ov.i))
         D == SegEnd(lineAt(tubeMatrix, ov.i))
     IN \E x \in SV_solve(gsl_vector_sub(B, A), gsl_vector_sub(C, D), gsl_vector_sub(C, A)) :
          LET pt == OverlapPoint(ov.segment, x[1])
          IN IF /\ ~gsl_isnan(x[1])
                /\ ~gsl_isnan(x[2])
                /\ InBox(pt, ov.segment)
                /\ InBox(pt, lineAt(tubeMatrix, ov.i))
             THEN ov' = [ov EXCEPT !.pts = Append(@, pt),
                                   !.tubeSegments = Append(@, ov.i),
                                   !.numPts = @ + 1,
                                   !.i = @ + 1,
                                   !.x = x,
                                   !.xs = Append(@, x)]
             ELSE ov' = [ov EXCEPT !.i = @ + 1, !.x = x, !.xs = Append(@, x)]
  /\ UNCHANGED <<tubeMatrix, nq, dq, charsVars, genVars, callVars, motorVars>>

GetOverlap3DReturn ==
  /\ ov.pc = "loop"
  /\ ov.i >= Len(tubeMatrix)
  /\ ov' = [ov EXCEPT !.pc = "done"]
  /\ UNCHANGED <<tubeMatrix, nq, dq, charsVars, genVars, callVars, motorVars>>

NextOverlap ==
  \/ GetOverlap3DIteration
  \/ GetOverlap3DReturn

SpecOverlap == InitOverlap /\ [][NextOverlap]_vars

\* C9: every point getOverlap3D has written lies, on the three axes and with
\* inclusive bounds, within the bounding box of the probe segment and within
\* the bounding box of the candidate segment whose index is recorded with it.
C9_PointsInBothBoxes ==
  ov.pc \in {"loop", "done"} =>
    \A k \in 1 .. Len(ov.pts) :
      \A axis \in 1 .. 3 :
        LET cand == lineAt(tubeMatrix, ov.tubeSegments[k])
            c == ov.pts[k][axis]
        IN /\ c.d > 0
           /\ min(ov.segment[axis], ov.segment[axis + 3]) * c.d <= c.n
           /\ c.n <= max(ov.segment[axis], ov.segment[axis + 3]) * c.d
           /\ min(cand[axis], cand[axis + 3]) * c.d <= c.n
           /\ c.n <= max(cand[axis], cand[axis + 3]) * c.d

C9_Witness ==
  /\ ov.pc = "done"
  /\ ov.segment = <<0, 0, 0, 5, 5, 0>>
  /\ tubeMatrix = << <<10, 0, 0, 6, 4, 0>>, <<5, 0, 0, 0, 5, 0>> >>
  /\ ov.numPts = 1
  /\ ov.tubeSegments = <<1>>
  /\ RatEq(ov.pts[1][1], [n |-> 5, d |-> 2])
  /\ RatEq(ov.pts[1][2], [n |-> 5, d |-> 2])
  /\ RatEq(ov.pts[1][3], Rat(0))

\* The lines through A-B and C-D, when coplanar and not parallel, meet at
\* A + t (B - A) = C + s (D - C) with
\*   t = ((C - A) x (D - C)) . n / n . n,  s = ((C - A) x (B - A)) . n / n . n,
\* n = (B - A) x (D - C).
CrossNormal(ab, cd) == cross_product(gsl_vector_sub(SegEnd(ab), SegStart(ab)),
                                     gsl_vector_sub(SegEnd(cd), SegStart(cd)))

CrossT(ab, cd) ==
  [n |-> Dot(cross_product(gsl_vector_sub(SegStart(cd), SegStart(ab)),
                           gsl_vector_sub(SegEnd(cd), SegStart(cd))),
             CrossNormal(ab, cd)),
   d |-> Dot(CrossNormal(ab, cd), CrossNormal(ab, cd))]

CrossS(ab, cd) ==
  [n |-> Dot(cross_product(gsl_vector_sub(SegStart(cd), SegStart(ab)),
                           gsl_vector_sub(SegEnd(ab), SegStart(ab))),
             CrossNormal(ab, cd)),
   d |-> Dot(CrossNormal(ab, cd), CrossNormal(ab, cd))]

\* the two segments are coplanar and cross at one point interior to both
CrossInside(ab, cd) ==
  /\ CrossNormal(ab, cd) # <<0, 0, 0>>
  /\ Dot(gsl_vector_sub(SegStart(cd), SegStart(ab)), CrossNormal(ab, cd)) = 0
  /\ Less(Rat(0), CrossT(ab, cd)) /\ Less(CrossT(ab, cd), Rat(1))
  /\ Less(Rat(0), CrossS(ab, cd)) /\ Less(CrossS(ab, cd), Rat(1))

\* the crossing point, coordinate k, over the common denominator n . n
CrossCoord(ab, cd, k) ==
  [n |-> ab[k] * CrossT(ab, cd).d + CrossT(ab, cd).n * (ab[k + 3] - ab[k]),
   d |-> CrossT(ab, cd).d]

\* C12: when getOverlap3D has returned, every network row that is coplanar
\* with the probe and crosses it at one interior point has contributed
\* exactly one point, the crossing point, recorded with the row's index; so
\* (0,0,0)-(5,5,0) against the one-row network (5,0,0)-(0,5,0) yields the
\* single point (2.5, 2.5, 0) with index 0.
C12_CrossingYieldsThePoint ==
  ov.pc = "done" =>
    /\ \A i \in 0 .. Len(tubeMatrix) - 1 :
         CrossInside(ov.segment, lineAt(tubeMatrix, i)) =>
           /\ Cardinality({k \in 1 .. Len(ov.tubeSegments) : ov.tubeSegments[k] = i}) = 1
           /\ \A k \in 1 .. Len(ov.tubeSegments) :
                ov.tubeSegments[k] = i =>
                  \A axis \in 1 .. 3 :
                    RatEq(ov.pts[k][axis], CrossCoord(ov.segment, lineAt(tubeMatrix, i), axis))
    /\ (Len(tubeMatrix) = 1 /\ CrossInside(ov.segment, lineAt(tubeMatrix, 0))) =>
         (ov.numPts = 1 /\ Len(ov.pts) = 1 /\ ov.tubeSegments = <<0>>)

C12_Witness ==
  /\ ov.pc = "done"
  /\ ov.segment = <<0, 0, 0, 5, 5, 0>>
  /\ tubeMatrix = << <<5, 0, 0, 0, 5, 0>> >>
  /\ CrossInside(ov.segment, lineAt(tubeMatrix, 0))
  /\ ov.numPts = 1
  /\ ov.tubeSegments = <<0>>
  /\ Len(ov.pts) = 1
  /\ RatEq(ov.pts[1][1], [n |-> 5, d |-> 2])
  /\ RatEq(ov.pts[1][2], [n |-> 5, d |-> 2])
  /\ RatEq(ov.pts[1][3], Rat(0))

\* the candidates scanned so far that had both parameters valid and whose
\* point lies in both bounding boxes
Accepted ==
  { i \in 0 .. Len(ov.xs) - 1 :
      /\ ~gsl_isnan(ov.xs[i + 1][1])
      /\ ~gsl_isnan(ov.xs[i + 1][2])
      /\ InBox(OverlapPoint(ov.segment, ov.xs[i + 1][1]), ov.segment)
      /\ InBox(OverlapPoint(ov.segment, ov.xs[i + 1][1]), lineAt(tubeMatrix, i)) }

\* C24: a candidate whose solved parameters contain a NaN is neither
\* recorded nor counted and the scan goes on with the next candidate: every
\* candidate before the loop index has been solved, the count is the number
\* of candidates with valid parameters and a point in both boxes, and the
\* points and indices recorded are theirs, at positions 0 .. count - 1 in
\* the order of the candidates.
C24_NaNCandidatesSkipped ==
  ov.pc \in {"loop", "done"} =>
    /\ Len(ov.xs) = ov.i
    /\ ov.numPts = Cardinality(Accepted)
    /\ Len(ov.pts) = ov.numPts
    /\ Len(ov.tubeSegments) = ov.numPts
    /\ {ov.tubeSegments[k] : k \in 1 .. ov.numPts} = Accepted
    /\ \A k \in 1 .. ov.numPts - 1 : ov.tubeSegments[k] < ov.tubeSegments[k + 1]
    /\ \A k \in 1 .. ov.numPts :
         ov.pts[k] = OverlapPoint(ov.segment, ov.xs[ov.tubeSegments[k] + 1][1])
    /\ \A i \in 0 .. Len(ov.xs) - 1 :
         (gsl_isnan(ov.xs[i + 1][1]) \/ gsl_isnan(ov.xs[i + 1][2])) =>
           \A k \in 1 .. ov.numPts : ov.tubeSegments[k] # i

\* a candidate without a solution, then a candidate that is recorded
C24_Witness ==
  /\ ov.pc = "done"
  /\ Len(tubeMatrix) = 3
  /\ gsl_isnan(ov.xs[2][1])
  /\ ov.numPts = 2
  /\ ov.tubeSegments = <<0, 2>>

\* pt - C, coordinate k
Off(pt, segment, k) == RatAdd(pt[k], Rat(-segment[k]))

\* pt = C + s (D - C) for some s in [0, 1]: pt - C is parallel to D - C and
\* pt lies between C and D
OnSegment(pt, segment) ==
  /\ InBox(pt, segment)
  /\ \A j, k \in 1 .. 3 :
       RatEq(RatMul(Off(pt, segment, j), Rat(segment[k + 3] - segment[k])),
             RatMul(Off(pt, segment, k), Rat(segment[j + 3] - segment[j])))

\* C28: every point getOverlap3D records lies on the probe segment and on
\* the candidate segment recorded with it; a probe that does not meet a
\* candidate, the probe itself and disjoint collinear candidates included,
\* records nothing for it.
C28_RecordedPointsAreIntersections ==
  ov.pc \in {"loop", "done"} =>
    \A k \in 1 .. Len(ov.pts) :
      /\ OnSegment(ov.pts[k], ov.segment)
      /\ OnSegment(ov.pts[k], lineAt(tubeMatrix, ov.tubeSegments[k]))
      /\ lineAt(tubeMatrix, ov.tubeSegments[k]) # ov.segment

(***************************************************************************)
(* getAllOverlaps3D: every row of the network probed against the network   *)
(***************************************************************************)
\* whether getOverlap3D records candidate i for the probe, for each of the
\* solutions the solver may return
Records(segment, network, i) ==
  LET A == SegStart(segment)
      B == SegEnd(segment)
      C == SegStart(lineAt(network, i))
      E == SegEnd(lineAt(network, i))
  IN { /\ ~gsl_isnan(x[1])
       /\ ~gsl_isnan(x[2])
       /\ InBox(OverlapPoint(segment, x[1]), segment)
       /\ InBox(OverlapPoint(segment, x[1]), lineAt(network, i)) :
         x \in SV_solve(gsl_vector_sub(B, A), gsl_vector_sub(C, E), gsl_vector_sub(C, A)) }

\* the counts the scan of candidates i, i + 1, ... may end with
RECURSIVE OverlapCounts(_, _, _)
OverlapCounts(segment, network, i) ==
  IF i < Len(network)
  THEN { (IF rec THEN 1 ELSE 0) + rest :
           rec \in Records(segment, network, i),
           rest \in OverlapCounts(segment, network, i + 1) }
  ELSE {0}

\* the values getOverlap3D may return for a probe
getOverlap3D(segment, network) == OverlapCounts(segment, network, 0)

\* rows of the pts matrix of the caller: the constructor's 10000, and lists
\* shorter than the square of the number of segments
CallerRows == {2, 4, 10000}

InitAll ==
  /\ tubeMatrix \in SeqsUpTo(OverlapPool, MaxSegs)
  /\ nq = NotCalled
  /\ dq = NotCalled
  /\ CharsIdle
  /\ GenIdle
  /\ OverlapIdle
  /\ MotorIdle
  /\ wq = NotCalled
  /\ vf = [pc |-> "idle"]
  /\ \E rows \in CallerRows :
       ao = [pc |-> "loop", rows |-> rows, i |-> 0, pp |-> 0, totPts |-> 0, numPts |-> 0]

\* one pass of the loop: the probe is row i, the numPts points found are
\* copied to rows pp, pp + 1, ... of pts.  A row at or beyond the size of
\* pts is reported by gsl_matrix_set to the error handler, which aborts; a
\* build without range checks writes outside the matrix and goes on.
GetAllOverlaps3DProbe ==
  /\ ao.pc = "loop"
  /\ ao.i < Len(tubeMatrix)
  /\ \E numPts \in getOverlap3D(lineAt(tubeMatrix, ao.i), tubeMatrix) :
       \E pc \in IF ao.pp + numPts > ao.rows THEN {"abort", "loop"} ELSE {"loop"} :
         ao' = [ao EXCEPT !.pc = pc,
                          !.numPts = numPts,
                          !.pp = @ + numPts,
                          !.totPts = @ + numPts,
                          !.i = @ + 1]
  /\ UNCHANGED <<tubeMatrix, nq, dq, charsVars, genVars, overlapVars, motorVars, wq, vf>>

GetAllOverlaps3DReturn ==
  /\ ao.pc = "loop"
  /\ ao.i >= Len(tubeMatrix)
  /\ ao' = [ao EXCEPT !.pc = "done"]
  /\ UNCHANGED <<tubeMatrix, nq, dq, charsVars, genVars, overlapVars, motorVars, wq, vf>>

NextAll ==
  \/ GetAllOverlaps3DProbe
  \/ GetAllOverlaps3DReturn

SpecAll == InitAll /\ [][NextAll]_vars

\* C29: getAllOverlaps3D never writes beyond the last row of the pts matrix
\* of its caller: the number of rows written, which is the sum of the
\* counts of the probes and the value returned, is at most the number of
\* rows of pts.
C29_WritesWithinCallersList ==
  ao.pc \in {"loop", "abort", "done"} =>
    /\ ao.pc # "abort"
    /\ ao.pp = ao.totPts
    /\ ao.pp <= ao.rows

(***************************************************************************)
(* The motor: inDestination, float2Tube, motorWalk, move2Destination       *)
(*                                                                         *)
(* Time is kept in milliseconds, rounded down.  timePeriod is taken >= 0;  *)
(* the standard deviation of a Brownian step is the integer square root of *)
(* 2 * D * timePeriod.                                                     *)
(***************************************************************************)
timeout == 100

float2Tube_timeout == 100

motor_radius == 15

movementRate == 1000

binding_probability == 1

D == 1

RatDiv(a, b) == [n |-> a.n * b.d, d |-> a.d * b.n]

Millis(seconds) == (1000 * seconds.n) \div seconds.d

\* x between the corners, y and z at or below both corners
inDestination(location, volume) ==
  /\ location[1] >= volume[1]
  /\ location[1] <= volume[4]
  /\ location[2] <= volume[2]
  /\ location[2] <= volume[5]
  /\ location[3] <= volume[3]
  /\ location[3] <= volume[6]

updateTime_Backwards(now, event_time) == now - event_time

updateTime(now, event_time) == now + event_time

gsl_rng_uniform(s) == [n |-> s, d |-> RngModulus]

\* newPos: three Gaussian draws of deviation sigma added to currentPos
brownianMotion(s, order, currentPos, timePeriod) ==
  LET sigma == ISqrt(2 * D * timePeriod)
      g1 == sigma * gsl_ran_gaussian(Advance(s, 1))
      g2 == sigma * gsl_ran_gaussian(Advance(s, 2))
      g3 == sigma * gsl_ran_gaussian(Advance(s, 3))
  IN gsl_vector_add(currentPos, IF order = "ltr" THEN <<g1, g2, g3>> ELSE <<g3, g2, g1>>)

Float2TubePass_NoBreak(st, order, network, timePeriod) ==
  IF st.left \/ ~(st.numPts < float2Tube_timeout)
  THEN [st EXCEPT !.left = TRUE]
  ELSE LET newPos == brownianMotion(st.r, order, st.currentPos, timePeriod)
           found == findNearestTube(newPos, network, motor_radius)
       IN [ts |-> found,
           pts |-> Append(st.pts, st.currentPos),
           r |-> Advance(st.r, 3),
           time |-> updateTime(st.time, Millis(Rat(timePeriod))),
           numPts |-> st.numPts + 1,
           currentPos |-> newPos,
           left |-> FALSE]

\* one pass of the loop of float2Tube: record the position, step, add
\* timePeriod, look for a segment within the radius of the new position;
\* nothing once the loop has been left
Float2TubePass(st, order, network, timePeriod) ==
  IF st.left \/ ~(st.numPts < float2Tube_timeout)
  THEN [st EXCEPT !.left = TRUE]
  ELSE LET newPos == brownianMotion(st.r, order, st.currentPos, timePeriod)
           found == findNearestTube(newPos, network, motor_radius)
       IN [ts |-> found,
           pts |-> Append(st.pts, st.currentPos),
           r |-> Advance(st.r, 3),
           time |-> updateTime(st.time, Millis(Rat(timePeriod))),
           numPts |-> st.numPts + 1,
           currentPos |-> newPos,
           left |-> found # NoSegment]

\* n passes in a row; the first half is bound to its value before the second
RECURSIVE Float2TubeLoop(_, _, _, _, _)
Float2TubeLoop(st, n, order, network, timePeriod) ==
  IF n = 0 THEN st
  ELSE IF n = 1 THEN Float2TubePass(st, order, network, timePeriod)
  ELSE CHOOSE out \in
         { IF half.left
           THEN half
           ELSE Float2TubeLoop(half, n - (n \div 2), order, network, timePeriod) :
             half \in {Float2TubeLoop(st, n \div 2, order, network, timePeriod)} } : TRUE

float2Tube(s, order, startPt, network, timePeriod, now) ==
  Float2TubeLoop([ts |-> NoSegment, pts |-> <<>>, r |-> s, time |-> now, numPts |-> 0,
                  currentPos |-> startPt, left |-> FALSE],
                 float2Tube_timeout, order, network, timePeriod)

\* the loop of motorWalk: the end of each segment up to the end of the tube;
\* read lists the rows of the network the loop has read
RECURSIVE WalkLoop(_, _, _, _, _, _)
WalkLoop(i, last, walked, now, network, read) ==
  IF i < last
  THEN LET pt2 == SegEnd(lineAt(network, i))
           pt1 == walked[Len(walked)]
       IN WalkLoop(i + 1, last, Append(walked, pt2),
                   updateTime(now, Millis(RatDiv(distance(pt1, pt2), Rat(movementRate)))),
                   network, Append(read, i))
  ELSE [pts |-> walked, time |-> now, read |-> read]

\* a walk that goes on to the last row of the network
motorWalk_ToNetworkEnd(s, startPt, network, segPerTube, now) ==
  LET seg == findNearestTube(startPt, network, motor_radius)
  IN IF Less(Rat(binding_probability), gsl_rng_uniform(Advance(s, 1)))
     THEN [pts |-> <<>>, time |-> now, seg |-> NoSegment, read |-> <<>>]
     ELSE IF seg = NoSegment
     THEN [pts |-> <<>>, time |-> now, seg |-> seg, read |-> <<>>]
     ELSE [seg |-> seg] @@ WalkLoop(seg, Len(network), <<startPt>>, now, network, <<>>)

motorWalk(s, startPt, network, segPerTube, now) ==
  LET seg == findNearestTube(startPt, network, motor_radius)
      segOfTube == seg % segPerTube
      segToGo == segPerTube - segOfTube
  IN IF Less(Rat(binding_probability), gsl_rng_uniform(Advance(s, 1)))
     THEN [pts |-> <<>>, time |-> now, seg |-> NoSegment, read |-> <<>>]
     ELSE IF seg = NoSegment
     THEN [pts |-> <<>>, time |-> now, seg |-> seg, read |-> <<>>]
     ELSE [seg |-> seg] @@ WalkLoop(seg, seg + segToGo, <<startPt>>, now, network, <<>>)

LoopGuard_Once(loops) == loops < 1

LoopGuard(loops) == loops < timeout

\* networks of whole tubes: one tube of two segments, two tubes of one
\* segment, no tube at all
OneTube == << <<0, 0, 0, 30, 0, 0>>, <<30, 0, 0, 30, 40, 0>> >>

TwoTubes == << <<0, 0, 0, 30, 0, 0>>, <<0, 100, 0, 30, 100, 0>> >>

NoTube == <<>>

FarBox == <<1000, 1000, 1000, 2000, 2000, 2000>>

NearBox == <<20, 0, 0, 40, 50, 10>>

Scenario(network, segPerTube, startPt, volume, timePeriod, seed, order) ==
  [tubeMatrix |-> network, segPerTube |-> segPerTube, startPt |-> startPt,
   volume |-> volume, timePeriod |-> timePeriod, seed |-> seed, order |-> order]

\* the runs of move2Destination: a start far from every tube, a network
\* without tubes, starts on and near a tube, destinations reached and not
MotorScenarios ==
  { Scenario(OneTube, 2, <<500, 500, 500>>, FarBox, 2, 0, "ltr"),
    Scenario(NoTube, 1, <<0, 0, 0>>, FarBox, 2, 21, "rtl"),
    Scenario(NoTube, 1, <<1500, 0, 0>>, NearBox, 0, 0, "ltr"),
    Scenario(TwoTubes, 1, <<0, 0, 0>>, NearBox, 2, 0, "ltr"),
    Scenario(TwoTubes, 1, <<0, 0, 0>>, NearBox, 0, 0, "rtl"),
    Scenario(TwoTubes, 1, <<0, 0, 0>>, NearBox, 2, 21, "rtl"),
    Scenario(OneTube, 2, <<0, 0, 0>>, FarBox, 0, 21, "ltr"),
    Scenario(OneTube, 2, <<0, 0, 0>>, NearBox, 2, 21, "ltr"),
    Scenario(OneTube, 2, <<1500, 0, 0>>, FarBox, 2, 0, "ltr"),
    Scenario(OneTube, 2, <<10, 0, 20>>, NearBox, 2, 21, "rtl"),
    Scenario(TwoTubes, 1, <<10, 0, 20>>, FarBox, 2, 0, "rtl"),
    Scenario(TwoTubes, 1, <<25, -5, -5>>, NearBox, 2, 0, "ltr") }

Init ==
  /\ nq = NotCalled
  /\ dq = NotCalled
  /\ CharsIdle
  /\ GenIdle
  /\ OverlapIdle
  /\ CallsIdle
  /\ \E sc \in MotorScenarios :
       /\ tubeMatrix = sc.tubeMatrix
       /\ current_location = sc.startPt
       /\ destination_volume = sc.volume
       /\ mr = sc.seed
       /\ m2d = [pc |-> "test", segPerTube |-> sc.segPerTube,
                 timePeriod |-> sc.timePeriod, order |-> sc.order, loops |-> 0,
                 f2t |-> NotCalled, walk |-> NotCalled]
  /\ f2d = [pc |-> "idle"]
  /\ drv = [pc |-> "idle"]
  /\ pts = <<>>
  /\ time = 0

\* while (!inDestination() && (loops < timeout))
Move2DestinationTest ==
  /\ m2d.pc = "test"
  /\ m2d' = [m2d EXCEPT !.pc =
               IF ~inDestination(current_location, destination_volume) /\ LoopGuard(m2d.loops)
               THEN "float2Tube" ELSE "done"]
  /\ UNCHANGED <<tubeMatrix, nq, dq, charsVars, genVars, overlapVars, callVars,
                 current_location, destination_volume, pts, time, mr, f2d, drv>>

\* float2Tube(r, current_location, pts, tubeMatrix, timePeriod);
\* setLocation(pts.back());
Move2DestinationFloat ==
  /\ m2d.pc = "float2Tube"
  /\ \E res \in {float2Tube(mr, m2d.order, current_location, tubeMatrix, m2d.timePeriod, time)} :
        /\ pts' = pts \o res.pts
        /\ time' = res.time
        /\ mr' = res.r
        /\ current_location' = pts'[Len(pts')]
        /\ m2d' = [m2d EXCEPT !.pc = "motorWalk",
                              !.f2t = [called |-> TRUE, startPt |-> current_location,
                                       before |-> Len(pts),
                                       ts |-> res.ts, numPts |-> res.numPts,
                                       draws |-> 3 * res.numPts,
                                       elapsed |-> res.time - time,
                                       currentPos |-> res.currentPos]]
  /\ UNCHANGED <<tubeMatrix, nq, dq, charsVars, genVars, overlapVars, callVars, destination_volume, f2d, drv>>

Move2DestinationWalk_Scribbles ==
  /\ m2d.pc = "motorWalk"
  /\ \E res \in {motorWalk(mr, current_location, tubeMatrix, m2d.segPerTube, time)} :
        /\ pts' = pts \o res.pts
        /\ time' = res.time
        /\ mr' = Advance(mr, 1)
        /\ current_location' = pts'[Len(pts')]
        /\ tubeMatrix' = [row \in DOMAIN tubeMatrix |->
                            IF row = res.seg + 1 THEN <<0, 0, 0, 0, 0, 0>> ELSE tubeMatrix[row]]
        /\ m2d' = [m2d EXCEPT !.pc = "test",
                              !.loops = @ + 1,
                              !.walk = [called |-> TRUE, startPt |-> current_location,
                                        seg |-> res.seg, numPts |-> Len(res.pts),
                                        elapsed |-> res.time - time]]
  /\ UNCHANGED <<nq, dq, charsVars, genVars, overlapVars, callVars, destination_volume, f2d, drv>>

\* motorWalk(r, current_location, pts, tubeMatrix, segPerTube);
\* setLocation(pts.back()); loops++;
Move2DestinationWalk ==
  /\ m2d.pc = "motorWalk"
  /\ \E res \in {motorWalk(mr, current_location, tubeMatrix, m2d.segPerTube, time)} :
        /\ pts' = pts \o res.pts
        /\ time' = res.time
        /\ mr' = Advance(mr, 1)
        /\ current_location' = pts'[Len(pts')]
        /\ m2d' = [m2d EXCEPT !.pc = "test",
                              !.loops = @ + 1,
                              !.walk = [called |-> TRUE, startPt |-> current_location,
                                        seg |-> res.seg, numPts |-> Len(res.pts),
                                        elapsed |-> res.time - time]]
  /\ UNCHANGED <<tubeMatrix, nq, dq, charsVars, genVars, overlapVars, callVars, destination_volume, f2d, drv>>

Next ==
  \/ Move2DestinationTest
  \/ Move2DestinationFloat
  \/ Move2DestinationWalk

\* the runs of the sequential program
Spec == Init /\ [][Next]_vars

\* the number of steps move2Destination can still take: three per pass of
\* the loop left, and the steps left in the current pass
StepsLeft ==
  3 * (timeout - m2d.loops)
    + (CASE m2d.pc = "test" -> 3
         [] m2d.pc = "float2Tube" -> 2
         [] m2d.pc = "motorWalk" -> 1
         [] OTHER -> 0)

\* C1: move2Destination terminates for every network, start and destination:
\* the loop runs at most timeout (100) times, every step lowers the number
\* of steps left, which never falls below 0, and on return inDestination()
\* is true or the cap was reached.
C1_Move2DestinationTerminates ==
  /\ [](m2d.loops <= timeout /\ StepsLeft >= 0)
  /\ [][StepsLeft' < StepsLeft]_vars
  /\ [](m2d.pc = "done" =>
          \/ inDestination(current_location, destination_volume)
          \/ m2d.loops = timeout)

C1_Witness ==
  /\ m2d.pc = "done"
  /\ m2d.loops = timeout
  /\ ~inDestination(current_location, destination_volume)
  /\ m2d.timePeriod = 2
  /\ m2d.f2t.numPts = 1
  /\ m2d.walk.seg = 1
  /\ current_location = <<30, 40, 0>>
  /\ time = timeout * 2000 + 70

\* C2: with timePeriod >= 0 the motor's time never decreases over a step of
\* float2Tube, motorWalk or move2Destination.
C2_TimeNonDecreasing == [][m2d.timePeriod >= 0 => time' >= time]_vars

C2_Witness ==
  /\ m2d.pc = "test"
  /\ m2d.loops = 1
  /\ m2d.timePeriod = 2
  /\ m2d.f2t.elapsed = 2000
  /\ m2d.walk.elapsed = 30
  /\ time = 2030

\* lower_left[k] <= p[k] <= upper_right[k] on the three axes
InsideBox(p, volume) == \A k \in 1 .. 3 : volume[k] <= p[k] /\ p[k] <= volume[k + 3]

\* C3: inDestination() is true if and only if the position is inside the
\* destination box on all three axes (all six box-face inequalities).
C3_InDestinationIsBoxContainment ==
  inDestination(current_location, destination_volume)
    <=> InsideBox(current_location, destination_volume)

\* C6: float2Tube started at the start point of a tube's first segment binds
\* without a Brownian step: no brownianMotion call, no draw, no time added,
\* and the segment returned is within the radius of the start point.
C6_BindsAtStartWithoutStep ==
  (/\ m2d.f2t.called
   /\ \E tube \in 0 .. (Len(tubeMatrix) \div m2d.segPerTube) - 1 :
        m2d.f2t.startPt = SegStart(lineAt(tubeMatrix, tube * m2d.segPerTube)))
  => /\ m2d.f2t.numPts = 0
     /\ m2d.f2t.draws = 0
     /\ m2d.f2t.elapsed = 0
     /\ m2d.f2t.ts \in InRadius(m2d.f2t.startPt, tubeMatrix, motor_radius)

\* C16: no step of a transport run (float2Tube, motorWalk, the loop test of
\* move2Destination) changes a row of the tube matrix, whether the run
\* arrives, fails to bind or uses up its budget.
C16_NetworkUnchanged == [][tubeMatrix' = tubeMatrix]_vars

\* a run that bound, walked a tube and arrived
C16_Witness ==
  /\ m2d.pc = "done"
  /\ m2d.loops >= 1
  /\ m2d.loops < timeout
  /\ m2d.walk.seg # NoSegment
  /\ inDestination(current_location, destination_volume)
  /\ tubeMatrix = TwoTubes

\* the k-th position float2Tube recorded in its last call, k in 1 .. numPts
Visited(k) == pts[m2d.f2t.before + k]

Nearest(pt, network, radius) ==
  {i \in InRadius(pt, network, radius) :
     \A j \in InRadius(pt, network, radius) :
       LessEq(distance(pt, lineAt(network, i)), distance(pt, lineAt(network, j)))}

\* C19: float2Tube takes at most float2Tube_timeout Brownian steps and tests
\* the position after each step; no position tested before the last one was
\* within the radius; the sentinel is returned exactly when the budget is
\* used up and the last position is not within the radius either, and any
\* other result is a segment nearest to the position where it stopped.
C19_Float2TubeStopsAtFirstContact ==
  (m2d.pc = "motorWalk" /\ m2d.f2t.called) =>
    /\ m2d.f2t.numPts >= 1
    /\ m2d.f2t.numPts <= float2Tube_timeout
    /\ m2d.f2t.draws = 3 * m2d.f2t.numPts
    /\ \A k \in 2 .. m2d.f2t.numPts :
         InRadius(Visited(k), tubeMatrix, motor_radius) = {}
    /\ (m2d.f2t.ts = NoSegment) <=>
         (/\ m2d.f2t.numPts = float2Tube_timeout
          /\ InRadius(m2d.f2t.currentPos, tubeMatrix, motor_radius) = {})
    /\ (m2d.f2t.ts # NoSegment) =>
         m2d.f2t.ts \in Nearest(m2d.f2t.currentPos, tubeMatrix, motor_radius)

\* float2Tube bound at its third step
C19_Witness ==
  /\ m2d.pc = "motorWalk"
  /\ m2d.f2t.called
  /\ m2d.f2t.numPts = 3
  /\ m2d.f2t.ts # NoSegment
  /\ InRadius(Visited(2), tubeMatrix, motor_radius) = {}
  /\ InRadius(Visited(3), tubeMatrix, motor_radius) = {}

\* C20: when float2Tube returns after k Brownian steps the history has grown
\* by the start position followed by the k positions reached after each
\* step, so that its last entry is the position where the motor stopped.
C20_HistoryHoldsEveryPosition ==
  (m2d.pc = "motorWalk" /\ m2d.f2t.called) =>
    /\ Len(pts) = m2d.f2t.before + m2d.f2t.numPts + 1
    /\ pts[m2d.f2t.before + 1] = m2d.f2t.startPt
    /\ pts[Len(pts)] = m2d.f2t.currentPos

\* C27: in move2Destination, when float2Tube has ended within the radius of
\* a segment, the location given to the motorWalk that follows is within the
\* radius of that segment, and motorWalk walks along it.
C27_WalkStartsOnTheFoundSegment ==
  /\ (m2d.pc = "motorWalk" /\ m2d.f2t.called /\ m2d.f2t.ts # NoSegment) =>
        LessEq(distance(current_location, lineAt(tubeMatrix, m2d.f2t.ts)), Rat(motor_radius))
  /\ (m2d.pc = "test" /\ m2d.walk.called /\ m2d.f2t.ts # NoSegment) =>
        m2d.walk.seg = m2d.f2t.ts

(***************************************************************************)
(* motorWalk called on its own: the motor's (P1906MOL_ExtendedMotion) and   *)
(* the field's (P1906MOL_MicrotubulesField)                                *)
(***************************************************************************)
\* 2^32 modulo n
TwoTo32Mod(n) == ((65536 % n) * (65536 % n)) % n

\* ULONG_MAX % n: what (size_t) -1 % n is
ULONG_MAX_Mod(n) == (TwoTo32Mod(n) * TwoTo32Mod(n) + n - 1) % n

\* what a read of row (size_t) -1 yields in a build without range checks
GarbageRows == { <<0, 0, 0, 0, 0, 0>>, <<7, 7, 7, 9, 9, 9>> }

\* the field's motorWalk: int seg, no test of seg before the start point is
\* stored and the loop is entered.  With seg = -1 the first row read is row
\* (size_t) -1: gsl_matrix_get reports the index to the error handler, which
\* aborts, or, built without range checks, reads outside the matrix.
MicrotubulesField_motorWalk(startPt, network, segPerTube, now) ==
  LET seg == findNearestTube(startPt, network, motor_radius)
      segOfTube == IF seg = NoSegment THEN ULONG_MAX_Mod(segPerTube) ELSE seg % segPerTube
      segToGo == segPerTube - segOfTube
  IN IF seg # NoSegment
     THEN { [seg |-> seg, outcome |-> "returned"]
              @@ WalkLoop(seg, seg + segToGo, <<startPt>>, now, network, <<>>) }
     ELSE { [seg |-> seg, outcome |-> "abort", pts |-> <<startPt>>, time |-> now,
             read |-> <<seg>>] }
          \cup
          { [seg |-> seg, outcome |-> "returned"]
              @@ WalkLoop(seg + 1, seg + segToGo, <<startPt, SegEnd(g)>>,
                          updateTime(now, Millis(RatDiv(distance(startPt, SegEnd(g)),
                                                        Rat(movementRate)))),
                          network, <<seg>>) : g \in GarbageRows }

\* two tubes of two segments
TwoByTwo ==
  << <<0, 0, 0, 30, 0, 0>>, <<30, 0, 0, 30, 40, 0>>,
     <<0, 100, 0, 30, 100, 0>>, <<30, 100, 0, 30, 140, 0>> >>

\* networks of whole tubes with their segPerTube
WalkNetworks ==
  { <<OneTube, 2>>, <<TwoTubes, 1>>, <<TwoByTwo, 2>>, <<NoTube, 1>>, <<NoTube, 2>> }

\* starts on and near the first and the last segment of a tube, and far away
WalkStarts ==
  { <<0, 0, 0>>, <<10, 0, 5>>, <<30, 20, 0>>, <<10, 100, 0>>, <<30, 120, 0>>,
    <<10, 50, 0>>, <<500, 500, 500>> }

WalkSeeds == {0, 21}

InitWalk ==
  /\ nq = NotCalled
  /\ dq = NotCalled
  /\ CharsIdle
  /\ GenIdle
  /\ OverlapIdle
  /\ MotorIdle
  /\ vf = [pc |-> "idle"]
  /\ ao = [pc |-> "idle"]
  /\ \E nw \in WalkNetworks, startPt \in WalkStarts, s \in WalkSeeds :
       /\ tubeMatrix = nw[1]
       /\ wq = [called |-> FALSE, startPt |-> startPt, segPerTube |-> nw[2], s |-> s]

\* motor.motorWalk(r, startPt, pts, tubeMatrix, segPerTube) with an empty pts
MotorWalkCall ==
  /\ ~wq.called
  /\ \E res \in {motorWalk(wq.s, wq.startPt, tubeMatrix, wq.segPerTube, 0)} :
       wq' = [called |-> TRUE, who |-> "motor", startPt |-> wq.startPt,
              segPerTube |-> wq.segPerTube, s |-> wq.s, outcome |-> "returned",
              seg |-> res.seg, pts |-> res.pts, read |-> res.read, elapsed |-> res.time]
  /\ UNCHANGED <<tubeMatrix, nq, dq, charsVars, genVars, overlapVars, motorVars, vf, ao>>

\* motorWalk(r, startPt, pts, &numPts, tubeMatrix, segPerTube, &t) of the field
FieldMotorWalkCall ==
  /\ ~wq.called
  /\ \E res \in MicrotubulesField_motorWalk(wq.startPt, tubeMatrix, wq.segPerTube, 0) :
       wq' = [called |-> TRUE, who |-> "field", startPt |-> wq.startPt,
              segPerTube |-> wq.segPerTube, s |-> wq.s, outcome |-> res.outcome,
              seg |-> res.seg, pts |-> res.pts, read |-> res.read, elapsed |-> res.time]
  /\ UNCHANGED <<tubeMatrix, nq, dq, charsVars, genVars, overlapVars, motorVars, vf, ao>>

NextWalk ==
  \/ MotorWalkCall
  \/ FieldMotorWalkCall

SpecWalk == InitWalk /\ [][NextWalk]_vars

\* the last segment of the tube that owns segment seg
LastOfTube(seg, segPerTube) == (seg \div segPerTube) * segPerTube + segPerTube - 1

\* C21: motorWalk bound at segment seg appends the start position and then
\* the end points of the segments seg .. last segment of the owning tube, in
\* that order and no others: segPerTube - (seg mod segPerTube) end points,
\* no row of another tube is read, and the last point appended is the end
\* of the tube's final segment.
C21_WalksToTheEndOfTheTube ==
  (wq.called /\ wq.seg # NoSegment) =>
    LET last == LastOfTube(wq.seg, wq.segPerTube)
        n == wq.segPerTube - (wq.seg % wq.segPerTube)
    IN /\ wq.outcome = "returned"
       /\ last < Len(tubeMatrix)
       /\ wq.read = [k \in 1 .. n |-> wq.seg + k - 1]
       /\ \A k \in 1 .. Len(wq.read) :
            wq.read[k] \div wq.segPerTube = wq.seg \div wq.segPerTube
       /\ Len(wq.pts) = n + 1
       /\ wq.pts[1] = wq.startPt
       /\ \A k \in 1 .. n : wq.pts[k + 1] = SegEnd(lineAt(tubeMatrix, wq.seg + k - 1))
       /\ wq.pts[Len(wq.pts)] = SegEnd(lineAt(tubeMatrix, last))

\* the motor bound at the first segment of the first of two tubes
C21_Witness ==
  /\ wq.called
  /\ wq.who = "motor"
  /\ tubeMatrix = TwoByTwo
  /\ wq.seg = 0
  /\ wq.read = <<0, 1>>
  /\ wq.pts = << wq.startPt, <<30, 0, 0>>, <<30, 40, 0>> >>

\* C22: every motorWalk tests the result of findNearestTube before it uses
\* it: when no segment is within the radius of the start point it reads no
\* row of the network, appends nothing to the history and adds no time.
C22_SentinelCheckedBeforeIndexing ==
  (wq.called /\ InRadius(wq.startPt, tubeMatrix, motor_radius) = {}) =>
    /\ wq.outcome = "returned"
    /\ wq.read = <<>>
    /\ wq.pts = <<>>
    /\ wq.elapsed = 0

(***************************************************************************)
(* The vector field: tubes2VectorField and findClosestPoint                *)
(***************************************************************************)
\* the row of vf for one row of tubeMatrix: pt = columns 0 .. 2, v = columns
\* 3 .. 5, gsl_matrix_sub(v, pt), then pt and v side by side
VectorFieldRow_NoSub(segment) ==
  LET pt == SegStart(segment)
      v  == SegEnd(segment)
  IN line(pt, v)

VectorFieldRow(segment) ==
  LET pt == SegStart(segment)
      v  == gsl_vector_sub(SegEnd(segment), SegStart(segment))
  IN line(pt, v)

tubes2VectorField(network) == [i \in 1 .. Len(network) |-> VectorFieldRow(network[i])]

\* cpt before the first sample is stored: (GSL_POSINF, GSL_POSINF, GSL_POSINF)
InfPoint == [atInfinity |-> TRUE]

\* distance(a, pt) < distance(b, pt) for two points of the grid: the square
\* root is increasing, the squared norms compare the same way
Nearer(a, b, pt) ==
  SquaredNorm(gsl_vector_sub(a, pt)) < SquaredNorm(gsl_vector_sub(b, pt))

NearerOrEqual(a, b, pt) ==
  SquaredNorm(gsl_vector_sub(a, pt)) <= SquaredNorm(gsl_vector_sub(b, pt))

ClosestStep_LastTie(pt, field, i, acc) ==
  LET tpt == SegStart(field[i + 1])
  IN IF acc.atInfinity \/ NearerOrEqual(tpt, acc.cpt, pt)
     THEN [atInfinity |-> FALSE, cpt |-> tpt, cv |-> SegEnd(field[i + 1])]
     ELSE acc

\* one pass of the loop of findClosestPoint.  While cpt is the point at
\* infinity distance(cpt, pt) is not a finite number (+inf, or NaN out of
\* inf / inf in the norm), and one of the two tests stores the sample.
ClosestStep(pt, field, i, acc) ==
  LET tpt == SegStart(field[i + 1])
  IN IF acc.atInfinity \/ Nearer(tpt, acc.cpt, pt)
     THEN [atInfinity |-> FALSE, cpt |-> tpt, cv |-> SegEnd(field[i + 1])]
     ELSE acc

RECURSIVE ClosestScan(_, _, _, _)
ClosestScan(pt, field, i, acc) ==
  IF i < Len(field)
  THEN ClosestScan(pt, field, i + 1, ClosestStep(pt, field, i, acc))
  ELSE acc

\* result for a field of at least one sample (cv is not set before the
\* first sample is stored)
findClosestPoint(pt, field) ==
  LET acc == ClosestScan(pt, field, 1, ClosestStep(pt, field, 0, InfPoint))
  IN line(acc.cpt, acc.cv)

\* the field of unitTestfindClosestPoint
UnitTestField == << <<0, 0, 0, 0, 0, 0>>, <<1, 1, 1, 1, 1, 1>>, <<5, 5, 5, 5, 5, 5>> >>

FieldQueries == QueryPoints \cup { <<1, 1, 1>> }

\* a network to build the field from, or the unit test's field as it is
InitField ==
  /\ nq = NotCalled
  /\ dq = NotCalled
  /\ CharsIdle
  /\ GenIdle
  /\ OverlapIdle
  /\ MotorIdle
  /\ wq = NotCalled
  /\ ao = [pc |-> "idle"]
  /\ \E pt \in FieldQueries :
       \/ /\ tubeMatrix \in Networks \ {<<>>}
          /\ vf = [pc |-> "build", input |-> tubeMatrix, pt |-> pt, field |-> <<>>,
                   result |-> <<>>]
       \/ /\ tubeMatrix = <<>>
          /\ vf = [pc |-> "query", input |-> tubeMatrix, pt |-> pt, field |-> UnitTestField,
                   result |-> <<>>]

Tubes2VectorField ==
  /\ vf.pc = "build"
  /\ vf' = [vf EXCEPT !.pc = "query", !.field = tubes2VectorField(tubeMatrix)]
  /\ UNCHANGED <<tubeMatrix, nq, dq, charsVars, genVars, overlapVars, motorVars, wq, ao>>

FindClosestPointCall ==
  /\ vf.pc = "query"
  /\ vf' = [vf EXCEPT !.pc = "done", !.result = findClosestPoint(vf.pt, vf.field)]
  /\ UNCHANGED <<tubeMatrix, nq, dq, charsVars, genVars, overlapVars, motorVars, wq, ao>>

NextField ==
  \/ Tubes2VectorField
  \/ FindClosestPointCall

SpecField == InitField /\ [][NextField]_vars

C26_OneSamplePerSegment ==
  (vf.pc \in {"query", "done"} /\ vf.input # <<>>) =>
    /\ tubeMatrix = vf.input
    /\ Len(vf.field) = Len(tubeMatrix)
    /\ \A i \in 1 .. Len(tubeMatrix) :
         /\ SegStart(vf.field[i]) = SegStart(tubeMatrix[i])
         /\ \A k \in 1 .. 3 : vf.field[i][k + 3] = tubeMatrix[i][k + 3] - tubeMatrix[i][k]

C26_Witness ==
  /\ vf.pc = "query"
  /\ tubeMatrix = << <<0, 20, 0, 10, 20, 0>>, <<0, 0, 0, 0, 10, 0>> >>
  /\ vf.field = << <<0, 20, 0, 10, 0, 0>>, <<0, 0, 0, 0, 10, 0>> >>

(***************************************************************************)
(* float2Destination: Brownian motion until the destination is reached     *)
(***************************************************************************)
\* Brownian steps explored in one call of float2Destination
MaxFloatSteps == 201

\* calls of float2Destination: the driver's (origin, the box 1000 .. 2000,
\* timePeriod 100), a motor that does not move, starts in and next to a box
FloatScenarios ==
  { Scenario(NoTube, 1, <<0, 0, 0>>, FarBox, 100, 0, "ltr"),
    Scenario(NoTube, 1, <<0, 0, 0>>, FarBox, 100, 21, "rtl"),
    Scenario(NoTube, 1, <<0, 0, 0>>, FarBox, 0, 0, "ltr"),
    Scenario(NoTube, 1, <<30, 0, 0>>, NearBox, 2, 0, "ltr"),
    Scenario(NoTube, 1, <<18, 1, -1>>, NearBox, 2, 21, "ltr"),
    Scenario(NoTube, 1, <<18, 1, -1>>, NearBox, 2, 40, "rtl"),
    Scenario(NoTube, 1, <<1500, 1500, 1500>>, FarBox, 2, 0, "ltr") }

InitFloat ==
  /\ nq = NotCalled
  /\ dq = NotCalled
  /\ CharsIdle
  /\ GenIdle
  /\ OverlapIdle
  /\ CallsIdle
  /\ m2d = [pc |-> "idle"]
  /\ drv = [pc |-> "idle"]
  /\ pts = <<>>
  /\ time = 0
  /\ \E sc \in FloatScenarios :
       /\ tubeMatrix = sc.tubeMatrix
       /\ current_location = sc.startPt
       /\ destination_volume = sc.volume
       /\ mr = sc.seed
       /\ f2d = [pc |-> "enter", timePeriod |-> sc.timePeriod, order |-> sc.order,
                 steps |-> 0, pos_history |-> <<>>]

\* pos_history.insert (pos_history.end(), Pos) with the starting position
Float2DestinationEnter ==
  /\ f2d.pc = "enter"
  /\ f2d' = [f2d EXCEPT !.pc = "loop", !.pos_history = Append(@, current_location)]
  /\ UNCHANGED <<tubeMatrix, nq, dq, charsVars, genVars, overlapVars, callVars,
                 current_location, destination_volume, pts, time, mr, m2d, drv>>

\* one pass of while (!inDestination()): a Brownian step from the motor's
\* generator, timePeriod added, the new position stored and recorded
Float2DestinationPass ==
  /\ f2d.pc = "loop"
  /\ ~inDestination(current_location, destination_volume)
  /\ f2d.steps < MaxFloatSteps
  /\ current_location' = brownianMotion(mr, f2d.order, current_location, f2d.timePeriod)
  /\ mr' = Advance(mr, 3)
  /\ time' = updateTime(time, Millis(Rat(f2d.timePeriod)))
  /\ f2d' = [f2d EXCEPT !.steps = @ + 1,
                        !.pos_history = Append(@, current_location')]
  /\ UNCHANGED <<tubeMatrix, nq, dq, charsVars, genVars, overlapVars, callVars,
                 destination_volume, pts, m2d, drv>>

Float2DestinationReturn ==
  /\ f2d.pc = "loop"
  /\ inDestination(current_location, destination_volume)
  /\ f2d' = [f2d EXCEPT !.pc = "done"]
  /\ UNCHANGED <<tubeMatrix, nq, dq, charsVars, genVars, overlapVars, callVars,
                 current_location, destination_volume, pts, time, mr, m2d, drv>>

NextFloat ==
  \/ Float2DestinationEnter
  \/ Float2DestinationPass
  \/ Float2DestinationReturn

SpecFloat == InitFloat /\ [][NextFloat]_vars

\* the largest step budget the design gives for a Brownian search: twice the
\* budget of float2Tube
StepBudget == 2 * float2Tube_timeout

\* C18: float2Destination takes a bounded number of Brownian steps, for
\* every start and destination box: the loop is left, at the latest, when
\* the step budget is used up.
C18_Float2DestinationBounded ==
  f2d.pc \in {"loop", "done"} => f2d.steps <= StepBudget

(***************************************************************************)
(* The driver: a network is generated, then the motor floats to the        *)
(* destination, floats to a tube and walks it.  The field object holds the *)
(* motor as a member; each of the two allocates a generator of its own.    *)
(***************************************************************************)
\* values of GSL_RNG_SEED
DriverSeeds == {0, 21, 40}

\* a box holding the origin, beside the driver's
HomeBox == <<-10, 0, 0, 10, 10, 10>>

DriverBoxes == {FarBox, HomeBox}

\* timePeriod handed to float2Tube: the driver's 0.1 s gives a step that
\* rounds to 0 nm, 2 s gives steps of 2 nm
DriverPeriods == {0, 2}

\* the motor's generator is allocated before the motor's own call of
\* gsl_rng_env_setup, so it has the seed in force until then: the library's
\* 0, or the environment's when an earlier object has read it; the field's
\* generator is allocated afterwards and has the environment's seed
InitDriver ==
  /\ nq = NotCalled
  /\ dq = NotCalled
  /\ setCalled = AllSetters
  /\ OverlapIdle
  /\ CallsIdle
  /\ hq = NotCalled
  /\ \E density \in GenDensities, segPerTube \in {1, 2} :
       ts = NetworkChars(2, 100, 30, 10, density, 50, segPerTube)
  /\ r \in DriverSeeds
  /\ mr \in {0, r}
  /\ tubeMatrix = [row \in 1 .. ts.numTubes * ts.segPerTube |-> Unset]
  /\ \E order \in ArgOrders :
       gen = [pc |-> "loop", i |-> 0, order |-> order,
              segMatrix |-> [row \in 1 .. ts.segPerTube |-> Unset],
              segAngleTheta |-> <<>>, segAnglePsi |-> <<>>, draws |-> 0,
              total_structural_entropy |-> 0]
  /\ current_location = <<0, 0, 0>>
  /\ destination_volume = <<0, 0, 0, 0, 0, 0>>
  /\ pts = <<>>
  /\ time = 0
  /\ m2d = [pc |-> "idle"]
  /\ f2d = [pc |-> "idle"]
  /\ \E box \in DriverBoxes : drv = [pc |-> "genTubes", box |-> box]

\* motor.setStartingPoint(startPt); motor.setDestinationVolume(ll, ur);
\* motor.float2Destination(100);
DriverFloat2Destination ==
  /\ drv.pc = "genTubes"
  /\ gen.pc = "done"
  /\ current_location' = point(0, 0, 0)
  /\ destination_volume' = drv.box
  /\ f2d' = [pc |-> "enter", timePeriod |-> 100, order |-> gen.order,
             steps |-> 0, pos_history |-> <<>>]
  /\ drv' = [drv EXCEPT !.pc = "float2Destination"]
  /\ UNCHANGED <<tubeMatrix, nq, dq, charsVars, genVars, overlapVars, callVars, pts, time, mr, m2d>>

\* pts.clear(); motor.float2Tube(r, startPt, pts, tubeMatrix, timePeriod)
\* from 10 nm beside the start of row 0, with the field's generator
DriverFloat2Tube ==
  /\ drv.pc = "float2Destination"
  /\ f2d.pc = "done"
  /\ \E timePeriod \in DriverPeriods :
       \E res \in {float2Tube(r, gen.order,
                              gsl_vector_add(SegStart(lineAt(tubeMatrix, 0)), <<10, 0, 0>>),
                              tubeMatrix, timePeriod, time)} :
         /\ pts' = res.pts
         /\ time' = res.time
         /\ r' = res.r
         /\ drv' = [drv EXCEPT !.pc = "motorWalk", !.ts = res.ts, !.numPts = res.numPts]
  /\ UNCHANGED <<tubeMatrix, nq, dq, charsVars, gen, hq, overlapVars, callVars,
                 current_location, destination_volume, mr, m2d, f2d>>

\* startPt = pts.back(); pts.clear();
\* motor.motorWalk(r, startPt, pts, tubeMatrix, ts.segPerTube)
DriverMotorWalk ==
  /\ drv.pc = "motorWalk"
  /\ \E res \in {motorWalk(r, pts[Len(pts)], tubeMatrix, ts.segPerTube, time)} :
       /\ pts' = res.pts
       /\ time' = res.time
       /\ r' = Advance(r, 1)
       /\ drv' = [drv EXCEPT !.pc = "done", !.seg = res.seg]
  /\ UNCHANGED <<tubeMatrix, nq, dq, charsVars, gen, hq, overlapVars, callVars,
                 current_location, destination_volume, mr, m2d, f2d>>

NextDriver ==
  \/ GenTubesIteration
  \/ GenTubesReturn
  \/ DriverFloat2Destination
  \/ Float2DestinationEnter
  \/ Float2DestinationPass
  \/ Float2DestinationReturn
  \/ DriverFloat2Tube
  \/ DriverMotorWalk

SpecDriver == InitDriver /\ [][NextDriver]_vars

\* C15: every stochastic operation of a run draws from the one stream of the
\* run: the generator the motor draws its Brownian steps from is the
\* generator the network is generated with, so once the run has drawn a
\* number the two show the same state.
C15_SingleStream == gen.i > 0 => mr = r

====
